---- MODULE Spec2Model ----
(***************************************************************************)
(* Model of llm-browser: the browse_url pipeline of BrowserServer          *)
(* (server.py), the cache store of Database (models.py), the URL helpers   *)
(* (utils/url.py), the grep filter (utils/grep.py), the configuration      *)
(* (config.py) and the command line entry points (cli.py).                 *)
(*                                                                         *)
(* Strings are sequences of tokens.  A token is an atomic piece of text;   *)
(* no substring the code looks for spans a token boundary in a way the     *)
(* token tables below do not describe.  A text with line breaks is a       *)
(* non-empty sequence of lines (what str.split("\n") returns).             *)
(***************************************************************************)
EXTENDS Integers, Sequences, FiniteSets, TLC

(***************************************************************************)
(* Bounds of the model.                                                    *)
(***************************************************************************)
MaxRequests == 2
MaxLines == 4
MaxContext == 2
MaxSegs == 3
MaxLinks == 3
MaxElements == 3
MaxItems == 4

(***************************************************************************)
(* String helpers (str methods of Python on token sequences).              *)
(***************************************************************************)
\* needle in s, for a needle of one to three tokens
Contains(s, needle) ==
  \E i \in 1..Len(s) :
    /\ i + Len(needle) - 1 <= Len(s)
    /\ \A k \in 1..Len(needle) : s[i + k - 1] = needle[k]

\* index of the first occurrence of token t in s, 0 when absent
FirstIndex(s, t) ==
  IF \E i \in 1..Len(s) : s[i] = t
  THEN CHOOSE i \in 1..Len(s) : s[i] = t /\ \A j \in 1..(i - 1) : s[j] # t
  ELSE 0

\* index of the last occurrence of token t in s, 0 when absent
LastIndex(s, t) ==
  IF \E i \in 1..Len(s) : s[i] = t
  THEN CHOOSE i \in 1..Len(s) : s[i] = t /\ \A j \in (i + 1)..Len(s) : s[j] # t
  ELSE 0

\* s.split(t)[0]
BeforeFirst(s, t) ==
  IF FirstIndex(s, t) = 0 THEN s ELSE SubSeq(s, 1, FirstIndex(s, t) - 1)

\* s.split(t)[-1]
AfterLast(s, t) == SubSeq(s, LastIndex(s, t) + 1, Len(s))

\* s.startswith(prefix)
StartsWith(s, prefix) ==
  /\ Len(s) >= Len(prefix)
  /\ SubSeq(s, 1, Len(prefix)) = prefix

\* s.replace(old, new): every non-overlapping occurrence, left to right
RECURSIVE Replace(_, _, _)
Replace(s, old, new) ==
  IF Len(s) < Len(old) THEN s
  ELSE IF SubSeq(s, 1, Len(old)) = old
       THEN new \o Replace(SubSeq(s, Len(old) + 1, Len(s)), old, new)
       ELSE <<Head(s)>> \o Replace(Tail(s), old, new)

(***************************************************************************)
(* utils/url.py                                                            *)
(***************************************************************************)
SchemeTokens == {"https:"}
Delims == {"/", "?", "#"}

\* urlparse(url).scheme
UrlScheme(url) ==
  IF Len(url) >= 1 /\ url[1] \in SchemeTokens THEN <<url[1]>> ELSE <<>>

\* urlparse(url).netloc: what follows "//" up to the next "/", "?" or "#"
UrlNetloc(url) ==
  IF /\ Len(url) >= 4
     /\ url[1] \in SchemeTokens
     /\ url[2] = "/"
     /\ url[3] = "/"
     /\ url[4] \notin Delims
  THEN <<url[4]>>
  ELSE <<>>

\* a validation that forgets the network location
is_valid_url_scheme_only(url) == UrlScheme(url) # <<>>

is_valid_url(url) == UrlScheme(url) # <<>> /\ UrlNetloc(url) # <<>>

\* hosts whose port httpx.URL refuses to parse
UnparsableHosts == {"example.com:x"}

\* a normalisation that keeps the fragment
normalize_url_keep_fragment(url) == url

\* httpx.URL(url).copy_with(fragment=""), the input itself when parsing fails
normalize_url(url) ==
  IF \E i \in 1..Len(url) : url[i] \in UnparsableHosts
  THEN url
  ELSE BeforeFirst(url, "#")

is_github_url(url) ==
  /\ Contains(url, <<"github.com">>)
  /\ (Contains(url, <<"/", "blob", "/">>) \/ Contains(url, <<"/", "edit", "/">>))

github_url_to_raw(github_url) ==
  IF ~Contains(github_url, <<"github.com">>) THEN github_url
  ELSE LET q == FirstIndex(github_url, "?")
           base_url == BeforeFirst(github_url, "?")
           query == IF q = 0 THEN <<>> ELSE SubSeq(github_url, q, Len(github_url))
       IN IF Contains(base_url, <<"/", "edit", "/">>)
          THEN Replace(base_url, <<"/", "edit", "/">>, <<"/", "raw", "/">>) \o query
          ELSE IF Contains(base_url, <<"/", "blob", "/">>)
          THEN Replace(Replace(base_url, <<"github.com">>, <<"raw.githubusercontent.com">>),
                       <<"/", "blob", "/">>, <<"/">>) \o query
          ELSE github_url

(***************************************************************************)
(* Texts.  The empty string is one empty line; a string is falsy exactly   *)
(* when it is empty.                                                       *)
(***************************************************************************)
EmptyText == << <<>> >>

Truthy(text) == text # EmptyText

Digits == <<"0", "1", "2", "3", "4", "5", "6", "7", "8", "9">>

\* str(n) for a natural number, one token per digit
RECURSIVE NumStr(_)
NumStr(n) == IF n < 10 THEN <<Digits[n + 1]>> ELSE NumStr(n \div 10) \o <<Digits[(n % 10) + 1]>>

\* str.lower() of one token
Lower(tok) ==
  CASE tok = "Foo" -> "foo"
    [] tok = "Edit this page" -> "edit this page"
    [] tok = "View source" -> "view source"
    [] tok = "GitHub" -> "github"
    [] OTHER -> tok

LowerStr(s) == [i \in 1..Len(s) |-> Lower(s[i])]

(***************************************************************************)
(* utils/grep.py                                                           *)
(***************************************************************************)
\* tokens that are word characters for the regex assertion \b
WordTokens == {"foo", "Foo", "bar", "baz", "Docs", "f.md", "x"}

\* tokens that make re.compile raise re.error (an unbalanced parenthesis)
UncompilableTokens == {"("}

Compiles(pattern) == \A i \in 1..Len(pattern) : pattern[i] \notin UncompilableTokens

IsWordAt(line, k) == k >= 1 /\ k <= Len(line) /\ line[k] \in WordTokens

\* \b holds between positions k-1 and k
Boundary(line, k) == IsWordAt(line, k - 1) # IsWordAt(line, k)

\* regex.search(line) for re.compile(pattern, re.IGNORECASE); the pattern is
\* literal text, optionally between \b assertions
RegexSearch(pattern, line) ==
  LET lead == Len(pattern) >= 1 /\ pattern[1] = "\\b"
      trail == Len(pattern) >= 2 /\ pattern[Len(pattern)] = "\\b"
      lo == IF lead THEN 2 ELSE 1
      hi == IF trail THEN Len(pattern) - 1 ELSE Len(pattern)
      lit == LowerStr(SubSeq(pattern, lo, hi))
      n == Len(lit)
  IN \E i \in 1..(Len(line) + 1) :
       /\ i + n - 1 <= Len(line)
       /\ LowerStr(SubSeq(line, i, i + n - 1)) = lit
       /\ lead => Boundary(line, i)
       /\ trail => Boundary(line, i + n)

\* GrepOptions.to_cli_flags, joined by blanks
to_cli_flags(context_lines, invert_match, show_line_numbers, whole_words) ==
  LET flags == (IF context_lines > 0 THEN << <<"-C ">> \o NumStr(context_lines) >> ELSE <<>>)
               \o (IF invert_match THEN << <<"-v">> >> ELSE <<>>)
               \o (IF show_line_numbers THEN << <<"-n">> >> ELSE <<>>)
               \o (IF whole_words THEN << <<"-w">> >> ELSE <<>>)
      Join[k \in 0..Len(flags)] ==
        IF k = 0 THEN <<>>
        ELSE IF k = 1 THEN flags[1]
        ELSE Join[k - 1] \o <<" ">> \o flags[k]
  IN Join[Len(flags)]

\* a filter that answers with the empty string
NoMatchText_empty == EmptyText

NoMatchText == << <<"No content matching the pattern was found.">> >>

\* the elements of a set of line indices from the last to the first
SortedIndices_descending(S, n) == SelectSeq([i \in 1..n |-> n + 1 - i], LAMBDA i : i \in S)

\* the sorted elements of a set of line indices
SortedIndices(S, n) == SelectSeq([i \in 1..n |-> i], LAMBDA i : i \in S)

grep_content(content, pattern, context_lines, invert_match, show_line_numbers, whole_words) ==
  IF pattern = <<>> THEN content
  ELSE
    LET lines == content
        n == Len(lines)
        pat == IF whole_words THEN <<"\\b">> \o pattern \o <<"\\b">> ELSE pattern
        Selected(is_match) == (is_match /\ ~invert_match) \/ (~is_match /\ invert_match)
        number(i) == IF show_line_numbers THEN NumStr(i) \o <<": ">> ELSE <<>>
    IN IF Compiles(pat)
       THEN
         LET matched == {i \in 1..n : Selected(RegexSearch(pat, lines[i]))}
             context_indices ==
               {j \in 1..n : \E idx \in matched :
                   j >= idx - context_lines /\ j <= idx + context_lines}
             indices == IF context_lines > 0 /\ ~invert_match
                        THEN matched \cup context_indices
                        ELSE matched
             prefix(i) == IF context_lines > 0 /\ ~invert_match
                          THEN (IF RegexSearch(pat, lines[i])
                                THEN <<"> ">> ELSE <<"  ">>) \o number(i)
                          ELSE number(i)
             order == SortedIndices(indices, n)
             result_lines == [k \in 1..Len(order) |-> prefix(order[k]) \o lines[order[k]]]
         IN IF result_lines # <<>> THEN result_lines ELSE NoMatchText
       ELSE
         LET hit(i) == Selected(Contains(LowerStr(lines[i]), LowerStr(pat)))
             order == SelectSeq([i \in 1..n |-> i], hit)
             result_lines == [k \in 1..Len(order) |-> number(order[k]) \o lines[order[k]]]
         IN IF result_lines # <<>> THEN result_lines ELSE NoMatchText

(***************************************************************************)
(* URLs the requests and the pages use.                                    *)
(***************************************************************************)
UrlDocs == <<"https:", "/", "/", "example.com", "/", "docs">>
UrlBlob == <<"https:", "/", "/", "github.com", "/", "o", "/", "blob", "/", "m", "/", "f.md">>
UrlNoScheme == <<"example.com", "/", "docs">>
UrlNoNetloc == <<"https:", "/", "/", "/", "docs">>
UrlRepo == <<"https:", "/", "/", "github.com", "/", "o">>
UrlTree == <<"https:", "/", "/", "github.com", "/", "o", "/", "tree", "/", "m">>
UrlEdit == <<"https:", "/", "/", "github.com", "/", "o", "/", "edit", "/", "m", "/", "f.md">>

(***************************************************************************)
(* What the fetcher can deliver.  A document is the text of a response     *)
(* together with what BeautifulSoup finds in it: the title, the anchors,   *)
(* the content elements, the body and the rendered navigation.  NoDoc is   *)
(* the None that _fetch_url returns on any failure.                        *)
(***************************************************************************)
NoElement == [tag |-> "none", sel |-> "none", noise |-> FALSE, inside |-> FALSE, len |-> 0,
              html_len |-> 0, links |-> 0, md |-> EmptyText]

\* faults are the library calls that raise on the document: the parser
\* ("parse"), the enhanced pipeline ("pipeline"), markdownify ("convert")
Blank == [kind |-> "none", text |-> EmptyText, title |-> <<>>, links |-> <<>>,
          elements |-> <<>>, body |-> EmptyText, nav |-> EmptyText, faults |-> {},
          whole |-> EmptyText, plain |-> EmptyText]

NoDoc == Blank

\* a response with status 200 and an empty body
EmptyDoc == [Blank EXCEPT !.kind = "empty"]

NavText == << <<"# ", "Site Navigation">>, <<>>, <<"## ", "Navigation">>, <<>>,
              <<"- ", "[", "Docs", "]">>, <<>> >>

PageNoLink ==
  [Blank EXCEPT !.kind = "html",
                !.text = << <<"<title>", "Docs", "</title>">>, <<"<main>", "foo", "</main>">>,
                            <<"<article>", "bar", "</article>">> >>,
                !.title = <<"Docs">>,
                !.elements = << [NoElement EXCEPT !.tag = "main", !.len = 500, !.html_len = 1000,
                                                  !.md = << <<"foo">>, <<"baz">> >>],
                                [NoElement EXCEPT !.tag = "article", !.len = 2000,
                                                  !.html_len = 3000,
                                                  !.md = << <<"bar">> >>] >>,
                !.body = << <<"foo">>, <<"baz">>, <<"bar">> >>,
                !.nav = NavText]

PageBlobLink ==
  [Blank EXCEPT !.kind = "html", !.nav = NavText,
                !.text = << <<"<a>", "GitHub", "</a>">>, <<"<a>", "Edit this page", "</a>">>,
                            <<"Foo">> >>,
                !.links = << [href |-> UrlRepo, text |-> <<"GitHub">>],
                             [href |-> UrlBlob, text |-> <<"Edit this page">>] >>,
                !.body = << <<"GitHub">>, <<"Edit this page">>, <<"Foo">> >>]

PageTreeLink ==
  [Blank EXCEPT !.kind = "html",
                !.text = << <<"<title>", "Docs", "</title>">>, <<"<a>", "View source", "</a>">>,
                            <<"bar">> >>,
                !.title = <<"Docs">>,
                !.links = << [href |-> UrlTree, text |-> <<"View source">>] >>,
                !.body = << <<"View source">>, <<"bar">> >>]

RawCode == [Blank EXCEPT !.kind = "raw", !.text = << <<"x">>, <<"Foo">> >>]

\* the page of a GitHub file, with the link to edit that file
PageSelfLink ==
  [Blank EXCEPT !.kind = "html",
                !.text = << <<"<a>", "Edit this page", "</a>">>, <<"baz">> >>,
                !.links = << [href |-> UrlEdit, text |-> <<"Edit this page">>] >>,
                !.body = << <<"Edit this page">>, <<"baz">> >>]

HtmlDocs == {PageNoLink, PageBlobLink, PageTreeLink}

RawDocs == {RawCode}

\* the hosts and paths that serve raw file content instead of a page
ServesRaw(url) ==
  /\ Len(url) >= 4
  /\ \/ url[4] = "raw.githubusercontent.com"
     \/ url[4] = "github.com" /\ Contains(url, <<"/", "raw", "/">>)

\* what the sites serve: raw file content at a raw URL, the documentation page
\* in one of its versions at UrlDocs, the page of the file at UrlEdit, a page
\* without source link elsewhere
Web(url) ==
  IF ServesRaw(url) THEN RawDocs
  ELSE IF url = UrlDocs THEN HtmlDocs
  ELSE IF url = UrlEdit THEN {PageSelfLink}
  ELSE {PageNoLink}

\* the outcomes of one _fetch_url(url)
FetchResults(url) == {NoDoc, EmptyDoc} \cup Web(url)

(***************************************************************************)
(* utils/html.py, on documents.                                            *)
(***************************************************************************)
extract_title(html) == html.title

EditPhrases == {"edit this page", "edit on github", "contribute to this page", "view source"}

NoLink == [href |-> <<>>, text |-> <<>>, is_github |-> FALSE, is_github_edit |-> FALSE,
           is_github_blob |-> FALSE, is_github_tree |-> FALSE, raw_url |-> <<>>,
           is_edit_link |-> FALSE]

\* the link_data of one anchor; raw_url <<>> stands for None
link_data(a) ==
  LET gh == Contains(a.href, <<"github.com">>)
      edit == gh /\ Contains(a.href, <<"/", "edit", "/">>)
      blob == gh /\ ~edit /\ Contains(a.href, <<"/", "blob", "/">>)
      tree == gh /\ ~edit /\ ~blob /\ Contains(a.href, <<"/", "tree", "/">>)
  IN [href |-> a.href, text |-> a.text, is_github |-> gh, is_github_edit |-> edit,
      is_github_blob |-> blob, is_github_tree |-> tree,
      raw_url |-> IF edit \/ blob \/ tree THEN github_url_to_raw(a.href) ELSE <<>>,
      is_edit_link |-> \E i \in 1..Len(a.text) : Lower(a.text[i]) \in EditPhrases]

\* the anchors with an href; those without href text, without link text or
\* with a javascript: href are skipped
extract_links_enhanced(html) ==
  LET kept == SelectSeq(html.links,
                        LAMBDA a : /\ a.href # <<>>
                                   /\ a.text # <<>>
                                   /\ ~StartsWith(a.href, <<"javascript:">>))
  IN [i \in 1..Len(kept) |-> link_data(kept[i])]

\* the first element of links whose flag in ok is set, NoLink when none is
FirstLink(links, ok) ==
  IF \E i \in 1..Len(links) : ok[i]
  THEN links[CHOOSE i \in 1..Len(links) : ok[i] /\ \A j \in 1..(i - 1) : ~ok[j]]
  ELSE NoLink

find_github_source_link(html) ==
  LET links == extract_links_enhanced(html)
      IsFile(l) == l.is_github_edit \/ l.is_github_blob \/ l.is_github_tree
      explicit == [i \in 1..Len(links) |-> IsFile(links[i]) /\ links[i].is_edit_link]
      file == [i \in 1..Len(links) |-> IsFile(links[i])]
      github == [i \in 1..Len(links) |-> links[i].is_github]
  IN IF FirstLink(links, explicit) # NoLink THEN FirstLink(links, explicit)
     ELSE IF FirstLink(links, file) # NoLink THEN FirstLink(links, file)
     ELSE FirstLink(links, github)

\* the score of a candidate found by its tag, times 1000
CandidateScore(e) ==
  CASE e.tag = "main" -> 100000
    [] e.tag = "article" -> 90000 + (IF e.len < 10000 THEN e.len ELSE 10000)
    [] OTHER -> 0

\* the common content selectors with their scores, times 1000, in the order
\* in which extract_main_content tries them
ContentSelectors ==
  << [name |-> "#content", score |-> 80000], [name |-> ".content", score |-> 75000],
     [name |-> "#main", score |-> 70000], [name |-> ".main", score |-> 65000],
     [name |-> "[role=main]", score |-> 60000], [name |-> ".post", score |-> 55000],
     [name |-> ".entry", score |-> 50000], [name |-> ".blog-post", score |-> 50000],
     [name |-> ".page-content", score |-> 48000], [name |-> ".site-content", score |-> 45000],
     [name |-> ".markdown-body", score |-> 95000] >>

\* the tags the density analysis scans, in its order
HeuristicTags == <<"div", "section", "main", "td", "table">>

\* the concatenation of a sequence of sequences
RECURSIVE ConcatAll(_)
ConcatAll(seqs) == IF seqs = <<>> THEN <<>> ELSE Head(seqs) \o ConcatAll(Tail(seqs))

\* the element is one that extract_main_content lists as navigation, as
\* header or footer, or as ad or comment noise
IsNoise(e) == e.tag \in {"nav", "header", "footer"} \/ e.noise

\* the score of the density analysis before it is normalized, times 1000 and
\* divided by 50, fractions dropped
HeuristicScore(e, content_priority) ==
  LET T == e.len
      H == e.html_len
      L == e.links
  IN CASE content_priority = <<"largest">> ->
            12 * T + (400 * T) \div H + (IF L > 0 THEN (2 * T) \div L ELSE T)
       [] content_priority = <<"dense">> ->
            (1000 * T) \div H + (IF L > 0 THEN (4 * T) \div L ELSE 2 * T) + T \div 5
       [] OTHER ->
            6 * T + (600 * T) \div H + (IF L > 0 THEN (3 * T) \div L ELSE (3 * T) \div 2)

\* a normalisation without the cap
normalized_score_uncapped(score) == score

\* min(40, score / 50), times 1000
normalized_score(score) == IF score < 40000 THEN score ELSE 40000

\* content_candidates before the final selection: the element (its position
\* in the document), the score times 1000 and the origin of each candidate
content_candidates(html, content_priority) ==
  LET els == html.elements
      idx == [i \in 1..Len(els) |-> i]
      mains == SelectSeq(idx, LAMBDA i : els[i].tag = "main")
      articles == SelectSeq(idx, LAMBDA i : els[i].tag = "article")
      tagged == [k \in 1..Len(articles) |->
                   [idx |-> articles[k], score |-> CandidateScore(els[articles[k]]),
                    name |-> "article"]]
      found(k) == SelectSeq(idx, LAMBDA i : /\ els[i].sel = ContentSelectors[k].name
                                            /\ els[i].len >= 100
                                            /\ ~els[i].inside)
      selected(k) == [n \in 1..Len(found(k)) |->
                        [idx |-> found(k)[n], score |-> ContentSelectors[k].score,
                         name |-> ContentSelectors[k].name]]
      rule_based == (IF mains # <<>>
                     THEN << [idx |-> mains[1], score |-> CandidateScore(els[mains[1]]),
                              name |-> "main"] >>
                     ELSE <<>>)
                    \o tagged
                    \o ConcatAll([k \in 1..Len(ContentSelectors) |-> selected(k)])
      dense(t) == SelectSeq(idx, LAMBDA i : /\ els[i].tag = HeuristicTags[t]
                                            /\ els[i].len >= 200
                                            /\ ~IsNoise(els[i])
                                            /\ els[i].html_len >= 500)
      heuristic(t) == [n \in 1..Len(dense(t)) |->
                         [idx |-> dense(t)[n],
                          score |-> normalized_score(HeuristicScore(els[dense(t)[n]],
                                                                    content_priority)),
                          name |-> HeuristicTags[t] \o "-heuristic"]]
  IN IF content_priority \in {<<"largest">>, <<"dense">>} \/ Len(rule_based) < 3
     THEN rule_based \o ConcatAll([t \in 1..Len(HeuristicTags) |-> heuristic(t)])
     ELSE rule_based

\* a choice of the shortest article
longest_article_shortest(els) ==
  CHOOSE i \in 1..Len(els) :
    /\ els[i].tag = "article"
    /\ \A j \in 1..Len(els) : els[j].tag = "article" => els[j].len >= els[i].len
    /\ \A j \in 1..(i - 1) : els[j].tag = "article" => els[j].len > els[i].len

\* max(article_elements, key=text length): the first of the longest articles
longest_article(els) ==
  CHOOSE i \in 1..Len(els) :
    /\ els[i].tag = "article"
    /\ \A j \in 1..Len(els) : els[j].tag = "article" => els[j].len <= els[i].len
    /\ \A j \in 1..(i - 1) : els[j].tag = "article" => els[j].len < els[i].len

\* a sort that is not stable: the last of the candidates with the highest score
highest_scoring_last(candidates) ==
  CHOOSE i \in 1..Len(candidates) :
    /\ \A j \in 1..Len(candidates) : candidates[j].score <= candidates[i].score
    /\ \A j \in (i + 1)..Len(candidates) : candidates[j].score < candidates[i].score

\* the position that the stable sort by descending score puts first
highest_scoring(candidates) ==
  CHOOSE i \in 1..Len(candidates) :
    /\ \A j \in 1..Len(candidates) : candidates[j].score <= candidates[i].score
    /\ \A j \in 1..(i - 1) : candidates[j].score < candidates[i].score

\* selected_content: the branch taken, the position of the selected element
\* in the document (0 for the body) and its position among the candidates
selected_content(html, content_priority) ==
  LET els == html.elements
      candidates == content_candidates(html, content_priority)
      has_main == \E i \in 1..Len(els) : els[i].tag = "main"
      has_article == \E i \in 1..Len(els) : els[i].tag = "article"
  IN IF content_priority = <<"main">> /\ has_main
     THEN [via |-> "main", pos |-> 0,
           idx |-> CHOOSE i \in 1..Len(els) :
                     els[i].tag = "main" /\ \A j \in 1..(i - 1) : els[j].tag # "main"]
     ELSE IF content_priority = <<"article">> /\ has_article
     THEN [via |-> "article", pos |-> 0, idx |-> longest_article(els)]
     ELSE IF candidates # <<>>
     THEN [via |-> "candidates", pos |-> highest_scoring(candidates),
           idx |-> candidates[highest_scoring(candidates)].idx]
     ELSE [via |-> "body", pos |-> 0, idx |-> 0]

\* the selectors of the cleanup of the selected region match the element
IsStripped(e) == IsNoise(e) \/ e.tag = "aside"

\* extract_main_content: the selected region after the cleanup, as its
\* markdown; the cleanup removes the region when the region itself matches
extract_main_content(html, content_priority) ==
  LET chosen == selected_content(html, content_priority)
  IN IF chosen.idx = 0 THEN html.body
     ELSE IF IsStripped(html.elements[chosen.idx]) THEN EmptyText
     ELSE html.elements[chosen.idx].md

\* the stages of html_to_markdown that ran, whether the last of them raised,
\* and the text returned: the full pipeline, markdownify on the whole cleaned
\* document, the text of the document
html_to_markdown_stages(html_content, content_priority) ==
  IF html_content.faults = {}
  THEN [tried |-> <<1>>, raised |-> FALSE,
        text |-> extract_main_content(html_content, content_priority)]
  ELSE IF html_content.faults \cap {"parse", "convert"} = {}
  THEN [tried |-> <<1, 2>>, raised |-> FALSE, text |-> html_content.whole]
  ELSE IF "parse" \notin html_content.faults
  THEN [tried |-> <<1, 2, 3>>, raised |-> FALSE, text |-> html_content.plain]
  ELSE [tried |-> <<1, 2, 3>>, raised |-> TRUE, text |-> EmptyText]

html_to_markdown(html_content, content_priority) ==
  html_to_markdown_stages(html_content, content_priority).text

(***************************************************************************)
(* Navigation.  A list is the sequence of its <li> elements in document    *)
(* order, nested ones included, each with its nesting depth (0 for the     *)
(* items of the list itself) and its anchor: one with an href ("href") or  *)
(* one without ("nohref").  The items nested in an <li> form one nested    *)
(* list.  An anchor is named by the place of its <li> in the list.         *)
(***************************************************************************)
\* the places of the <li> elements inside the <li> at place i
Subtree(items, i) ==
  SelectSeq([j \in 1..Len(items) |-> j],
            LAMBDA j : j > i /\ \A k \in (i + 1)..j : items[k].depth > items[i].depth)

\* the navigation items of one <li>: its own link, else the first link
\* inside it, then those of every <li> of its nested lists at level + 1
RECURSIVE _process_list_item(_, _, _)
_process_list_item(items, li, level) ==
  LET nested_items == Subtree(items, li)
      links == IF items[li].a = "href" THEN << [node |-> li, level |-> level] >> ELSE <<>>
      with_href == SelectSeq(nested_items, LAMBDA j : items[j].a = "href")
      deeper_links == IF links = <<>> /\ with_href # <<>>
                      THEN << [node |-> with_href[1], level |-> level] >>
                      ELSE <<>>
  IN links \o deeper_links
       \o ConcatAll([k \in 1..Len(nested_items) |->
                       _process_list_item(items, nested_items[k], level + 1)])

\* the <li> elements of a list: of the whole list for root 0, of the list
\* nested in the <li> at place root otherwise
ListItems(items, root) ==
  IF root = 0 THEN [j \in 1..Len(items) |-> j] ELSE Subtree(items, root)

_extract_hierarchical_navigation(items, root) ==
  LET list_items == ListItems(items, root)
  IN ConcatAll([k \in 1..Len(list_items) |-> _process_list_item(items, list_items[k], 0)])

\* a threshold of two links
list_elements_two(items) ==
  {root \in 0..Len(items) : Len(ListItems(items, root)) >= 2}

\* the lists with at least three anchors
list_elements(items) ==
  {root \in 0..Len(items) : Len(ListItems(items, root)) >= 3}

\* extract_navigation on a document whose navigation containers are lists:
\* one section for every list that yields items
extract_navigation(items) ==
  {[root |-> root, items |-> _extract_hierarchical_navigation(items, root)] :
     root \in {r \in list_elements(items) : _extract_hierarchical_navigation(items, r) # <<>>}}

\* format_navigation_as_markdown(extract_navigation(html)), "" without sections
nav_markdown(html) == html.nav

(***************************************************************************)
(* config.py and the arguments of cli.py                                   *)
(***************************************************************************)
ValidPriorities == {<<"auto">>, <<"main">>, <<"article">>, <<"largest">>, <<"dense">>}

BrowserConfig(prefer_raw, include_navigation, content_priority, github_raw_only) ==
  [prefer_raw |-> prefer_raw,
   include_navigation |-> include_navigation,
   content_priority |-> IF content_priority \in ValidPriorities
                        THEN content_priority ELSE <<"auto">>,
   github_raw_only |-> github_raw_only]

\* "server" with its options: --no-raw, --navigation, --content-priority,
\* --github-raw-only
ServerArgs ==
  {[no_raw |-> FALSE, navigation |-> FALSE, content_priority |-> <<"auto">>,
    github_raw_only |-> FALSE],
   [no_raw |-> TRUE, navigation |-> FALSE, content_priority |-> <<"auto">>,
    github_raw_only |-> TRUE]}

ConfigOf(args) ==
  BrowserConfig(~args.no_raw, args.navigation, args.content_priority, args.github_raw_only)

(***************************************************************************)
(* models.py: the table web_cache as a function from primary key to row.   *)
(***************************************************************************)
EmptyStore == [k \in {} |-> 0]

FlagTok(b) == IF b THEN "1" ELSE "0"

\* a key that leaves the feature flags out
_generate_cache_id_url_only(url, prefer_raw, include_navigation, content_priority) == url

_generate_cache_id(url, prefer_raw, include_navigation, content_priority) ==
  url \o <<"|", FlagTok(prefer_raw), "|", FlagTok(include_navigation), "|">>
      \o content_priority

NoRow == [url |-> <<>>, content |-> EmptyText, markdown_content |-> EmptyText,
          timestamp |-> 0, prefer_raw |-> 0, include_navigation |-> 0,
          content_priority |-> <<>>]

\* the row get_cached_content finds, NoRow for None
get_cached_content(st, url, prefer_raw, include_navigation, content_priority) ==
  LET cache_id == _generate_cache_id(url, prefer_raw, include_navigation, content_priority)
  IN IF cache_id \in DOMAIN st THEN st[cache_id] ELSE NoRow

\* a write that is never committed
cache_content_skip(st, now, url, content, markdown_content, prefer_raw, include_navigation, content_priority) == st

\* a write that stores the raw markup in the column of the rendered text
cache_content_swapped(st, now, url, content, markdown_content, prefer_raw, include_navigation, content_priority) ==
  LET cache_id == _generate_cache_id(url, prefer_raw, include_navigation, content_priority)
      row == [url |-> url, content |-> markdown_content, markdown_content |-> content,
              timestamp |-> now, prefer_raw |-> IF prefer_raw THEN 1 ELSE 0,
              include_navigation |-> IF include_navigation THEN 1 ELSE 0,
              content_priority |-> content_priority]
  IN [k \in DOMAIN st \cup {cache_id} |-> IF k = cache_id THEN row ELSE st[k]]

\* a write that replaces the table by the new row
cache_content_replace_all(st, now, url, content, markdown_content, prefer_raw, include_navigation, content_priority) ==
  LET cache_id == _generate_cache_id(url, prefer_raw, include_navigation, content_priority)
  IN [k \in {cache_id} |->
        [url |-> url, content |-> content, markdown_content |-> markdown_content,
         timestamp |-> now, prefer_raw |-> IF prefer_raw THEN 1 ELSE 0,
         include_navigation |-> IF include_navigation THEN 1 ELSE 0,
         content_priority |-> content_priority]]

\* a write that leaves an entry that is already there as it is
cache_content_keep_first(st, now, url, content, markdown_content, prefer_raw, include_navigation, content_priority) ==
  LET cache_id == _generate_cache_id(url, prefer_raw, include_navigation, content_priority)
  IN IF cache_id \in DOMAIN st THEN st
     ELSE [k \in DOMAIN st \cup {cache_id} |->
             IF k = cache_id
             THEN [url |-> url, content |-> content, markdown_content |-> markdown_content,
                   timestamp |-> now, prefer_raw |-> IF prefer_raw THEN 1 ELSE 0,
                   include_navigation |-> IF include_navigation THEN 1 ELSE 0,
                   content_priority |-> content_priority]
             ELSE st[k]]

\* the table after cache_content
cache_content(st, now, url, content, markdown_content, prefer_raw, include_navigation, content_priority) ==
  LET cache_id == _generate_cache_id(url, prefer_raw, include_navigation, content_priority)
  IN IF cache_id \in DOMAIN st
     THEN [st EXCEPT ![cache_id] =
             [@ EXCEPT !.content = content, !.markdown_content = markdown_content,
                       !.timestamp = now]]
     ELSE [k \in DOMAIN st \cup {cache_id} |->
             IF k = cache_id
             THEN [url |-> url, content |-> content, markdown_content |-> markdown_content,
                   timestamp |-> now, prefer_raw |-> IF prefer_raw THEN 1 ELSE 0,
                   include_navigation |-> IF include_navigation THEN 1 ELSE 0,
                   content_priority |-> content_priority]
             ELSE st[k]]

\* drop_all followed by create_all
_initialize_database(st) == EmptyStore

\* the table after clear_cache; the count it returns is Cardinality(DOMAIN st)
clear_cache(st) == EmptyStore

Min(S) == CHOOSE x \in S : \A y \in S : x <= y

Max(S) == CHOOSE x \in S : \A y \in S : y <= x

\* get_cache_stats: the count and the oldest and newest timestamps (0 for None)
get_cache_stats(st) ==
  LET stamps == {st[k].timestamp : k \in DOMAIN st}
  IN [count |-> Cardinality(DOMAIN st),
      oldest_entry_time |-> IF stamps = {} THEN 0 ELSE Min(stamps),
      newest_entry_time |-> IF stamps = {} THEN 0 ELSE Max(stamps)]

(***************************************************************************)
(* server.py: the state.                                                   *)
(*   store    the table web_cache of the database file                     *)
(*   clock    the last value read from int(time.time())                    *)
(*   config   the BrowserConfig of the running server                      *)
(*   req      per request slot: the position of browse_url, its locals,    *)
(*            its response, and a record of what the request did           *)
(*   started  the number of browse requests started so far                 *)
(*   out      the result of the last cache tool or cache command           *)
(*   db_up    the database answers; when it does not, a session call raises *)
(*   fn       a call of one of the pure functions: its arguments and, once  *)
(*            it has returned, its result                                   *)
(***************************************************************************)
VARIABLES store, clock, config, req, started, out, db_up, fn

vars == <<store, clock, config, req, started, out, db_up, fn>>

Procs == {1, 2}

\* the slots of requests that run one after the other
SeqProcs == {1}

NoGrep == [pattern |-> <<>>, context_lines |-> 0, invert_match |-> FALSE,
           show_line_numbers |-> FALSE, whole_words |-> FALSE]

WithGrep == [pattern |-> <<"foo">>, context_lines |-> 1, invert_match |-> FALSE,
             show_line_numbers |-> TRUE, whole_words |-> FALSE]

\* the grep arguments of the searches
GrepArgs == {WithGrep}

\* a call of browse_url: the URL, the grep arguments and the optional
\* arguments, "None" when left out
Call(url, grep, prefer_raw, include_navigation, content_priority, github_raw_only) ==
  [url |-> url, grep |-> grep, prefer_raw |-> prefer_raw,
   include_navigation |-> include_navigation, content_priority |-> content_priority,
   github_raw_only |-> github_raw_only]

\* the calls of the browse requests: each URL with the defaults, with a grep
\* pattern, and with one optional argument set
BrowseCalls ==
  {Call(UrlNoScheme, NoGrep, "None", "None", <<"None">>, "None"),
   Call(UrlNoNetloc, NoGrep, "None", "None", <<"None">>, "None")}
  \cup
  {Call(url, grep, "None", "None", <<"None">>, "None") :
     url \in {UrlDocs, UrlBlob}, grep \in {NoGrep, WithGrep}}
  \cup
  {Call(url, NoGrep, prefer_raw, "None", <<"None">>, "None") :
     url \in {UrlDocs, UrlBlob}, prefer_raw \in {"True", "False"}}
  \cup
  {Call(UrlDocs, NoGrep, "None", "True", <<"None">>, "None"),
   Call(UrlDocs, NoGrep, "None", "None", <<"article">>, "None")}
  \cup
  {Call(url, NoGrep, "None", "None", <<"None">>, github_raw_only) :
     url \in {UrlDocs, UrlBlob}, github_raw_only \in {"True", "False"}}

OrDefault(opt, default) == IF opt = "None" THEN default ELSE opt = "True"

NoResp == [form |-> "none", url |-> <<>>, source |-> "none", pattern |-> <<>>,
           options |-> <<>>, body |-> EmptyText]

NoLast == [stored |-> FALSE, url |-> <<>>, prefer_raw |-> FALSE,
           include_navigation |-> FALSE, content_priority |-> <<>>,
           text |-> EmptyText]

IdleReq ==
  [pc |-> "idle", url |-> <<>>, grep |-> NoGrep,
   prefer_raw |-> FALSE, include_navigation |-> FALSE, content_priority |-> <<>>,
   github_raw_only |-> FALSE,
   pending |-> <<>>, html_content |-> NoDoc,
   resp |-> NoResp,
   \* what the request did: the URLs it fetched and the kinds of the documents
   \* it got for them, whether it read the table,
   \* whether it found its entry, whether it wrote, the page content it
   \* returned, where that content came from and what kind of document it was,
   \* the entry the request before it stored, and whether the table held, when
   \* the request started, an entry of its URL with its flags (exact) and
   \* one of its URL with other flags (foreign)
   fetched |-> <<>>, results |-> <<>>, looked |-> FALSE, hit |-> FALSE, wrote |-> FALSE,
   content |-> EmptyText, origin |-> "none", origin_kind |-> "none",
   prev |-> NoLast, exact |-> FALSE, foreign |-> FALSE]

NoOut == [op |-> "none", count |-> 0, results |-> {}]

\* the response of lines 197-222: the grep filter and the header
Finish(r, content, source, origin, kind) ==
  LET g == r.grep
      filtered_content ==
        grep_content(content, g.pattern, g.context_lines, g.invert_match,
                     g.show_line_numbers, g.whole_words)
      options_str == to_cli_flags(g.context_lines, g.invert_match,
                                  g.show_line_numbers, g.whole_words)
  IN [r EXCEPT !.pc = "done", !.pending = <<>>, !.html_content = NoDoc,
               !.content = content, !.origin = origin, !.origin_kind = kind,
               !.resp = IF g.pattern # <<>>
                        THEN [form |-> "content", url |-> r.url, source |-> source,
                              pattern |-> g.pattern,
                              options |-> IF options_str # <<>>
                                          THEN <<" with options: ">> \o options_str
                                          ELSE <<>>,
                              body |-> filtered_content]
                        ELSE [form |-> "content", url |-> r.url, source |-> source,
                              pattern |-> <<>>, options |-> <<>>, body |-> content]]

\* the early returns of lines 91 and 162: no grep filter, a header of their own
ReturnRaw(r, content, source, origin, kind) ==
  [r EXCEPT !.pc = "done", !.pending = <<>>, !.html_content = NoDoc,
            !.content = content, !.origin = origin, !.origin_kind = kind,
            !.resp = [NoResp EXCEPT !.form = "content", !.url = r.url,
                                    !.source = source, !.body = content]]

\* a return that carries a message only
Message(r, form) ==
  [r EXCEPT !.pc = "done", !.pending = <<>>, !.html_content = NoDoc,
            !.resp = [NoResp EXCEPT !.form = form, !.url = r.url]]

\* an exception of a database call leaves browse_url: nothing catches it
Raise(r) ==
  [r EXCEPT !.pc = "done", !.pending = <<>>, !.html_content = NoDoc,
            !.resp = [NoResp EXCEPT !.form = "exception", !.url = r.url]]

\* await self._fetch_url(url)
Await(r, pc, url) ==
  [r EXCEPT !.pc = pc, !.pending = url, !.fetched = Append(@, url)]

\* lines 95-119: normalize, look the entry up, leave on a hit or go on to
\* fetch the page
Lookup(r, st) ==
  LET normalized_url == normalize_url(r.url)
      cached == get_cached_content(st, normalized_url, r.prefer_raw,
                                   r.include_navigation, r.content_priority)
      looked == [r EXCEPT !.looked = TRUE]
  IN IF ~db_up THEN Raise(looked)
     ELSE IF cached # NoRow
     THEN Finish([looked EXCEPT !.hit = TRUE], cached.markdown_content,
                 "cache", "store", "stored")
     ELSE IF r.github_raw_only /\ ~is_github_url(r.url)
     THEN Message(looked, "raw_only_error")
     ELSE Await(looked, "fetch_page", r.url)

\* lines 164-195: render the page, store the entry, respond; the new values of
\* the request and of the table
Render(r, st, now) ==
  LET html_content == r.html_content
      title == IF extract_title(html_content) # <<>>
               THEN extract_title(html_content) ELSE r.url
      rendered == html_to_markdown(html_content, r.content_priority)
      nav == nav_markdown(html_content)
      markdown_content == IF r.include_navigation /\ Truthy(nav)
                          THEN nav \o << <<"---">>, <<>> >> \o rendered
                          ELSE rendered
      content == << <<"# ">> \o title, <<>> >> \o markdown_content
  IN IF ~db_up \/ html_to_markdown_stages(html_content, r.content_priority).raised
     THEN [req |-> Raise(r), store |-> st]
     ELSE
     [req |-> Finish([r EXCEPT !.wrote = TRUE], content, "web", "web", "render"),
      store |-> cache_content(st, now, normalize_url(r.url), html_content.text, content,
                              r.prefer_raw, r.include_navigation, r.content_priority)]

\* lines 131-162: the raw content of the page's source link becomes the
\* content, is stored and returned at once
RawFromLink(r, st, now, raw_content) ==
  LET html_content == r.html_content
      nav == nav_markdown(html_content)
      with_nav == IF r.include_navigation /\ Truthy(nav)
                  THEN nav \o << <<"---">>, <<>> >> \o raw_content.text
                  ELSE raw_content.text
      title == IF extract_title(html_content) # <<>>
               THEN extract_title(html_content) ELSE AfterLast(r.pending, "/")
      content == IF StartsWith(with_nav[1], <<"# ">>)
                 THEN with_nav
                 ELSE << <<"# ">> \o title, <<>> >> \o with_nav
  IN IF ~db_up THEN [req |-> Raise(r), store |-> st]
     ELSE
     [req |-> ReturnRaw([r EXCEPT !.wrote = TRUE], content, "GitHub raw content",
                        "raw_link", raw_content.kind),
      store |-> cache_content(st, now, normalize_url(r.url), html_content.text, content,
                              r.prefer_raw, r.include_navigation, r.content_priority)]

\* a check that takes every fetch result for content
Fetched_always(doc) == TRUE

\* a fetch result is used only when it is not None and not empty
Fetched(doc) == doc.kind # "none" /\ Truthy(doc.text)

\* the entry a completed request leaves behind for the request after it
LastOf(r) ==
  IF r.pc = "done" /\ r.wrote
  THEN [stored |-> TRUE, url |-> r.url, prefer_raw |-> r.prefer_raw,
        include_navigation |-> r.include_navigation,
        content_priority |-> r.content_priority, text |-> r.content]
  ELSE NoLast

\* row was stored for this URL with these flags
RowOf(row, url, prefer_raw, include_navigation, content_priority) ==
  /\ row.url = normalize_url(url)
  /\ row.prefer_raw = (IF prefer_raw THEN 1 ELSE 0)
  /\ row.include_navigation = (IF include_navigation THEN 1 ELSE 0)
  /\ row.content_priority = content_priority

\* no call of a pure function
NoCall == [op |-> "none", args |-> <<>>, done |-> FALSE, ret |-> <<>>]

\* no request is between its start and its return
Quiet == \A q \in Procs : req[q].pc \in {"idle", "done"}

\* the values int(time.time()) can return now: the second of the last
\* reading or the one after it
Times == {clock, clock + 1}

Init ==
  /\ store = EmptyStore
  /\ clock = 1
  /\ config \in {ConfigOf(a) : a \in ServerArgs}
  /\ req = [p \in Procs |-> IdleReq]
  /\ started = 0
  /\ out = NoOut
  /\ db_up = TRUE
  /\ fn = NoCall

\* browse_url up to its first await or return (lines 71-119)
Start(p, url, grep, prefer_raw, include_navigation, content_priority, github_raw_only) ==
  /\ req[p].pc \in {"idle", "done"}
  /\ started < MaxRequests
  /\ LET use_prefer_raw == OrDefault(prefer_raw, config.prefer_raw)
         use_include_navigation == OrDefault(include_navigation, config.include_navigation)
         use_content_priority == IF content_priority # <<"None">>
                                 THEN content_priority ELSE config.content_priority
         use_github_raw_only == OrDefault(github_raw_only, config.github_raw_only)
         r == [IdleReq EXCEPT !.url = url, !.grep = grep,
                              !.prefer_raw = use_prefer_raw,
                              !.include_navigation = use_include_navigation,
                              !.content_priority = use_content_priority,
                              !.github_raw_only = use_github_raw_only,
                              !.prev = LastOf(req[p]),
                              !.exact = \E k \in DOMAIN store :
                                 RowOf(store[k], url, use_prefer_raw,
                                       use_include_navigation, use_content_priority),
                              !.foreign = \E k \in DOMAIN store :
                                 /\ store[k].url = normalize_url(url)
                                 /\ ~RowOf(store[k], url, use_prefer_raw,
                                           use_include_navigation, use_content_priority)]
     IN req' = [req EXCEPT ![p] =
                  IF ~is_valid_url(url) THEN Message(r, "invalid_url")
                  ELSE IF is_github_url(url) /\ use_prefer_raw
                  THEN Await(r, "fetch_raw", github_url_to_raw(url))
                  ELSE Lookup(r, store)]
  /\ started' = started + 1
  /\ out' = NoOut
  /\ UNCHANGED <<store, clock, config, db_up, fn>>

\* the fetch of the raw form of the requested GitHub URL returns (lines 86-119)
RawReturn(p, raw_content) ==
  /\ req[p].pc = "fetch_raw"
  /\ raw_content \in FetchResults(req[p].pending)
  /\ LET r == [req[p] EXCEPT !.results = Append(@, raw_content.kind)]
         filename == BeforeFirst(AfterLast(r.url, "/"), "?")
         content == << <<"# ">> \o filename, <<>> >> \o raw_content.text
     IN req' = [req EXCEPT ![p] =
                  IF Fetched(raw_content)
                  THEN ReturnRaw(r, content, "GitHub source", "raw_direct",
                                 raw_content.kind)
                  ELSE IF r.github_raw_only THEN Message(r, "raw_failed")
                  ELSE Lookup(r, store)]
  /\ UNCHANGED <<store, clock, config, started, out, db_up, fn>>

\* the fetch of the requested page returns (lines 117-131, 164-222)
PageReturn(p, html_content, now) ==
  /\ req[p].pc = "fetch_page"
  /\ html_content \in FetchResults(req[p].pending)
  /\ now \in Times
  /\ LET failed == [req[p] EXCEPT !.results = Append(@, html_content.kind)]
         r == [failed EXCEPT !.html_content = html_content]
         github_link == IF r.prefer_raw THEN find_github_source_link(html_content)
                        ELSE NoLink
         done == Render(r, store, now)
     IN IF ~Fetched(html_content)
        THEN /\ req' = [req EXCEPT ![p] = Message(failed, "fetch_failed")]
             /\ UNCHANGED <<store, clock>>
        ELSE IF github_link # NoLink /\ github_link.raw_url # <<>>
        THEN /\ req' = [req EXCEPT ![p] = Await(r, "fetch_link", github_link.raw_url)]
             /\ UNCHANGED <<store, clock>>
        ELSE /\ req' = [req EXCEPT ![p] = done.req]
             /\ store' = done.store
             /\ clock' = now
  /\ UNCHANGED <<config, started, out, db_up, fn>>

\* the fetch of the raw form of the page's source link returns (lines 129-222)
LinkReturn(p, raw_content, now) ==
  /\ req[p].pc = "fetch_link"
  /\ raw_content \in FetchResults(req[p].pending)
  /\ now \in Times
  /\ LET r == [req[p] EXCEPT !.results = Append(@, raw_content.kind)]
         done == IF Fetched(raw_content)
                 THEN RawFromLink(r, store, now, raw_content)
                 ELSE Render(r, store, now)
     IN /\ req' = [req EXCEPT ![p] = done.req]
        /\ store' = done.store
  /\ clock' = now
  /\ UNCHANGED <<config, started, out, db_up, fn>>

\* the responses of the requests have been delivered
Delivered == [p \in Procs |-> IdleReq]

\* the tool clear_cache
ToolClearCache ==
  /\ Quiet
  /\ out' = [NoOut EXCEPT !.op = "clear", !.count = Cardinality(DOMAIN store)]
  /\ store' = clear_cache(store)
  /\ req' = Delivered
  /\ UNCHANGED <<clock, config, started, db_up, fn>>

\* the tool get_cache_stats
ToolGetCacheStats ==
  /\ Quiet
  /\ out' = [NoOut EXCEPT !.op = "stats", !.count = get_cache_stats(store).count]
  /\ req' = Delivered
  /\ UNCHANGED <<store, clock, config, started, db_up, fn>>

\* the preview of one entry in search_cached_content
Preview(filtered_content) ==
  IF Len(filtered_content) >= 10
  THEN SubSeq(filtered_content, 1, 10) \o << <<"...(more results truncated)...">> >>
  ELSE filtered_content

\* "No content matching" in text
HasNoMatchPhrase(text) ==
  \E i \in 1..Len(text) : \E k \in 1..Len(text[i]) :
    text[i][k] = "No content matching the pattern was found."

\* the tool search_cached_content: the matched results
search_cached_content(st, g) ==
  {[url |-> st[k].url,
    preview |-> Preview(grep_content(st[k].markdown_content, g.pattern, g.context_lines,
                                     g.invert_match, g.show_line_numbers, g.whole_words))] :
     k \in {id \in DOMAIN st :
              LET filtered_content ==
                    grep_content(st[id].markdown_content, g.pattern, g.context_lines,
                                 g.invert_match, g.show_line_numbers, g.whole_words)
              IN Truthy(filtered_content) /\ ~HasNoMatchPhrase(filtered_content)}}

ToolSearch(g) ==
  /\ Quiet
  /\ g.pattern # <<>>
  /\ out' = [NoOut EXCEPT !.op = "search", !.count = get_cache_stats(store).count,
                          !.results = search_cached_content(store, g)]
  /\ req' = Delivered
  /\ UNCHANGED <<store, clock, config, started, db_up, fn>>

\* create_server(config): Database.__init__ initialises the tables
create_server(st) == _initialize_database(st)

\* llm-browser server [options]: a new server process replaces the running one
CliServer(args) ==
  /\ Quiet
  /\ config' = ConfigOf(args)
  /\ store' = create_server(store)
  /\ req' = Delivered
  /\ out' = [NoOut EXCEPT !.op = "server"]
  /\ UNCHANGED <<clock, started, db_up, fn>>

\* llm-browser cache clear
CliCacheClear ==
  /\ Quiet
  /\ out' = [NoOut EXCEPT !.op = "cli_clear",
                          !.count = Cardinality(DOMAIN create_server(store))]
  /\ store' = clear_cache(create_server(store))
  /\ req' = Delivered
  /\ UNCHANGED <<clock, config, started, db_up, fn>>

\* llm-browser cache reset --force
CliCacheReset ==
  /\ Quiet
  /\ out' = [NoOut EXCEPT !.op = "cli_reset"]
  /\ store' = _initialize_database(create_server(store))
  /\ req' = Delivered
  /\ UNCHANGED <<clock, config, started, db_up, fn>>

\* llm-browser cache stats
CliCacheStats ==
  /\ Quiet
  /\ out' = [NoOut EXCEPT !.op = "cli_stats",
                          !.count = get_cache_stats(create_server(store)).count]
  /\ store' = create_server(store)
  /\ req' = Delivered
  /\ UNCHANGED <<clock, config, started, db_up, fn>>

AllDocs == {NoDoc, EmptyDoc} \cup RawDocs \cup HtmlDocs \cup {PageSelfLink}

\* a browse request, from its start to its return
Browse(p) ==
  \/ \E c \in BrowseCalls :
       /\ Quiet
       /\ Start(p, c.url, c.grep, c.prefer_raw, c.include_navigation,
                c.content_priority, c.github_raw_only)
  \/ \E doc \in AllDocs : RawReturn(p, doc)
  \/ \E doc \in AllDocs, now \in Times : PageReturn(p, doc, now)
  \/ \E doc \in AllDocs, now \in Times : LinkReturn(p, doc, now)

Next ==
  \/ \E p \in SeqProcs : Browse(p)
  \/ ToolClearCache
  \/ ToolGetCacheStats
  \/ \E g \in GrepArgs : ToolSearch(g)
  \/ \E args \in ServerArgs : CliServer(args)
  \/ CliCacheClear
  \/ CliCacheReset
  \/ CliCacheStats

Spec == Init /\ [][Next]_vars

(***************************************************************************)
(* Requests one after the other while the database may stop answering:     *)
(* the page of a GitHub file that links to itself, and a content_priority  *)
(* override that is none of the modes.                                     *)
(***************************************************************************)
FaultCalls ==
  {Call(UrlEdit, NoGrep, "None", "None", <<"None">>, "None"),
   Call(UrlDocs, NoGrep, "None", "None", <<"None">>, "None"),
   Call(UrlDocs, NoGrep, "None", "None", <<"bogus">>, "None")}

\* the returns of the fetches of a request
Returns(p) ==
  \/ \E doc \in AllDocs : RawReturn(p, doc)
  \/ \E doc \in AllDocs, now \in Times : PageReturn(p, doc, now)
  \/ \E doc \in AllDocs, now \in Times : LinkReturn(p, doc, now)

FaultBrowse(p) ==
  \/ \E c \in FaultCalls :
       /\ Quiet
       /\ Start(p, c.url, c.grep, c.prefer_raw, c.include_navigation,
                c.content_priority, c.github_raw_only)
  \/ Returns(p)

\* the database file becomes unreadable (locked, removed, disk full)
StoreDown ==
  /\ db_up
  /\ db_up' = FALSE
  /\ UNCHANGED <<store, clock, config, req, started, out, fn>>

\* the database answers again
StoreUp ==
  /\ ~db_up
  /\ db_up' = TRUE
  /\ UNCHANGED <<store, clock, config, req, started, out, fn>>

FaultNext ==
  \/ \E p \in SeqProcs : FaultBrowse(p)
  \/ StoreDown
  \/ StoreUp

FaultSpec == Init /\ [][FaultNext]_vars

(***************************************************************************)
(* Calls of the pure functions.  The initial state holds the arguments of  *)
(* one call, the action of the function applies it.                        *)
(***************************************************************************)
\* the lines of the texts: a match, no match, and a match that is no whole
\* word and follows a parenthesis
GrepLines == {<<"foo">>, <<"bar">>, <<"(", "Foo", "x">>}

\* the texts of one to n lines
TextsUpTo(n) == UNION {[1..k -> GrepLines] : k \in 1..n}

\* five lines of which the third matches
ExampleText == << <<"bar">>, <<"bar">>, <<"foo">>, <<"bar">>, <<"bar">> >>

\* a pattern that compiles and one that does not
GrepPatterns == {<<"foo">>, <<"(", "foo">>}

GrepCalls ==
  {[op |-> "grep", done |-> FALSE, ret |-> <<>>,
    args |-> [content |-> content, pattern |-> pattern, context_lines |-> c,
              invert_match |-> v, show_line_numbers |-> n, whole_words |-> w]] :
     content \in TextsUpTo(MaxLines) \cup {ExampleText, EmptyText},
     pattern \in GrepPatterns, c \in 0..MaxContext,
     v \in BOOLEAN, n \in BOOLEAN, w \in BOOLEAN}

ApplyGrep ==
  /\ fn.op = "grep"
  /\ ~fn.done
  /\ fn' = [fn EXCEPT !.done = TRUE,
                       !.ret = grep_content(fn.args.content, fn.args.pattern,
                                            fn.args.context_lines, fn.args.invert_match,
                                            fn.args.show_line_numbers, fn.args.whole_words)]
  /\ UNCHANGED <<store, clock, config, req, started, out, db_up>>

\* the path segments of the URLs handed to github_url_to_raw
Segs == {"o", "blob", "edit", "github.com"}

\* the path made of the segments q
PathOf(q) == [k \in 1..(2 * Len(q)) |-> IF k % 2 = 1 THEN "/" ELSE q[k \div 2]]

RawCalls ==
  {[op |-> "to_raw", done |-> FALSE, ret |-> <<>>,
    args |-> [url |-> <<"https:", "/", "/", host>> \o PathOf(q) \o query]] :
     host \in {"github.com", "example.com"},
     q \in UNION {[1..k -> Segs] : k \in 1..MaxSegs},
     query \in {<<>>, <<"?", "x">>}}

ApplyToRaw ==
  /\ fn.op = "to_raw"
  /\ ~fn.done
  /\ fn' = [fn EXCEPT !.done = TRUE, !.ret = github_url_to_raw(fn.args.url)]
  /\ UNCHANGED <<store, clock, config, req, started, out, db_up>>

\* the anchors of the pages handed to find_github_source_link: a link to the
\* repository, to a file with and without edit phrasing, to a tree, a link
\* with edit phrasing that is not to GitHub, an icon link without text, and
\* a link to another host with github.com in its path
Anchors ==
  {[href |-> UrlRepo, text |-> <<"GitHub">>],
   [href |-> UrlBlob, text |-> <<"Edit this page">>],
   [href |-> UrlBlob, text |-> <<"Foo">>],
   [href |-> UrlTree, text |-> <<"View source">>],
   [href |-> UrlDocs, text |-> <<"Edit this page">>],
   [href |-> UrlRepo, text |-> <<>>],
   [href |-> <<"https:", "/", "/", "example.com", "/", "edit", "/", "github.com">>,
    text |-> <<"Docs">>]}

LinkCalls ==
  {[op |-> "find_link", done |-> FALSE, ret |-> <<>>,
    args |-> [html |-> [Blank EXCEPT !.kind = "html", !.links = links]]] :
     links \in UNION {[1..k -> Anchors] : k \in 0..MaxLinks}}

ApplyFindLink ==
  /\ fn.op = "find_link"
  /\ ~fn.done
  /\ fn' = [fn EXCEPT !.done = TRUE, !.ret = find_github_source_link(fn.args.html)]
  /\ UNCHANGED <<store, clock, config, req, started, out, db_up>>

\* the rendered texts of the entries that are searched; the second quotes the
\* sentence of the grep filter next to a matching line
SearchTexts ==
  {<< <<"# ", "Docs">>, <<>>, <<"foo">> >>,
   << <<"# ", "Docs">>, <<>>, <<"No content matching the pattern was found.">>, <<"foo">> >>,
   << <<"# ", "Docs">>, <<>>, <<"bar">> >>}

\* the table with an entry with the rendered text t for each URL of urls
StoreOf(urls, t) ==
  [k \in {_generate_cache_id(u, TRUE, FALSE, <<"auto">>) : u \in urls} |->
     LET u == CHOOSE u \in urls : _generate_cache_id(u, TRUE, FALSE, <<"auto">>) = k
     IN [url |-> u, content |-> t[u], markdown_content |-> t[u], timestamp |-> 1,
         prefer_raw |-> 1, include_navigation |-> 0, content_priority |-> <<"auto">>]]

SearchGreps == {WithGrep, [WithGrep EXCEPT !.context_lines = 0]}

SearchCalls ==
  {[op |-> "search", done |-> FALSE, ret |-> <<>>,
    args |-> [st |-> StoreOf(urls, t), g |-> g]] :
     urls \in {{UrlDocs}, {UrlDocs, UrlBlob}},
     t \in [{UrlDocs, UrlBlob} -> SearchTexts],
     g \in SearchGreps}

ApplySearch ==
  /\ fn.op = "search"
  /\ ~fn.done
  /\ fn' = [fn EXCEPT !.done = TRUE, !.ret = search_cached_content(fn.args.st, fn.args.g)]
  /\ UNCHANGED <<store, clock, config, req, started, out, db_up>>

\* the URLs handed to normalize_url: with a host httpx parses and with one
\* it does not, without fragment and with one of two fragments
NormUrls ==
  {<<"https:", "/", "/", host, "/", "docs">> \o query \o fragment :
     host \in {"example.com", "example.com:x"},
     query \in {<<>>, <<"?", "x">>},
     fragment \in {<<>>, <<"#", "a">>, <<"#", "b">>}}

NormalizeCalls ==
  {[op |-> "normalize", done |-> FALSE, ret |-> <<>>,
    args |-> [url |-> url, other |-> other]] : url \in NormUrls, other \in NormUrls}

\* normalize_url on two URLs and on its own result, and the cache keys that
\* browse_url derives from the two results
ApplyNormalize ==
  /\ fn.op = "normalize"
  /\ ~fn.done
  /\ fn' = [fn EXCEPT
              !.done = TRUE,
              !.ret = [url |-> normalize_url(fn.args.url),
                       other |-> normalize_url(fn.args.other),
                       again |-> normalize_url(normalize_url(fn.args.url)),
                       url_key |-> _generate_cache_id(normalize_url(fn.args.url),
                                                      TRUE, FALSE, <<"auto">>),
                       other_key |-> _generate_cache_id(normalize_url(fn.args.other),
                                                        TRUE, FALSE, <<"auto">>)]]
  /\ UNCHANGED <<store, clock, config, req, started, out, db_up>>

\* the arguments of _generate_cache_id: URLs as normalize_url returns them,
\* one of them with the delimiter of the key in its path, and the strings
\* browse_url passes on as content_priority
KeyUrls ==
  {UrlDocs,
   <<"https:", "/", "/", "example.com:x", "/", "docs">>,
   <<"https:", "/", "/", "example.com:x", "/", "docs", "|", "1", "|", "0", "|", "main">>}

KeyPriorities == {<<"auto">>, <<"main">>, <<"main", "|", "1", "|", "0", "|", "auto">>}

KeyTuples ==
  [url : KeyUrls, prefer_raw : BOOLEAN, include_navigation : BOOLEAN,
   content_priority : KeyPriorities]

CacheIdCalls ==
  {[op |-> "cache_id", done |-> FALSE, ret |-> <<>>, args |-> [a |-> a, b |-> b]] :
     a \in KeyTuples, b \in KeyTuples}

ApplyCacheId ==
  /\ fn.op = "cache_id"
  /\ ~fn.done
  /\ fn' = [fn EXCEPT
              !.done = TRUE,
              !.ret = [a |-> _generate_cache_id(fn.args.a.url, fn.args.a.prefer_raw,
                                                fn.args.a.include_navigation,
                                                fn.args.a.content_priority),
                       b |-> _generate_cache_id(fn.args.b.url, fn.args.b.prefer_raw,
                                                fn.args.b.include_navigation,
                                                fn.args.b.content_priority)]]
  /\ UNCHANGED <<store, clock, config, req, started, out, db_up>>

\* the elements of the documents handed to extract_main_content: a <main> of
\* 500 characters, a <div class="content"> of 50, articles of 200, 2000 and
\* 10000 characters, an <article class="comment">, a <div class="entry"> and a
\* <div class="blog-post">, a <div> and a <section> of 10000 characters
ElementPool ==
  {[NoElement EXCEPT !.tag = "main", !.len = 500, !.html_len = 1000,
                     !.md = << <<"main">> >>],
   [NoElement EXCEPT !.tag = "div", !.sel = ".content", !.len = 50, !.html_len = 100,
                     !.md = << <<"content">> >>],
   [NoElement EXCEPT !.tag = "article", !.len = 200, !.html_len = 400,
                     !.md = << <<"short">> >>],
   [NoElement EXCEPT !.tag = "article", !.len = 2000, !.html_len = 3000,
                     !.md = << <<"long">> >>],
   [NoElement EXCEPT !.tag = "article", !.len = 10000, !.html_len = 12000,
                     !.md = << <<"longest">> >>],
   [NoElement EXCEPT !.tag = "article", !.noise = TRUE, !.len = 300, !.html_len = 400,
                     !.md = << <<"comment">> >>],
   [NoElement EXCEPT !.tag = "div", !.sel = ".entry", !.len = 300, !.html_len = 400,
                     !.md = << <<"entry">> >>],
   [NoElement EXCEPT !.tag = "div", !.sel = ".blog-post", !.len = 300, !.html_len = 400,
                     !.md = << <<"post">> >>],
   [NoElement EXCEPT !.tag = "div", !.len = 10000, !.html_len = 12000, !.links = 4,
                     !.md = << <<"div">> >>],
   [NoElement EXCEPT !.tag = "section", !.len = 10000, !.html_len = 12000,
                     !.md = << <<"section">> >>]}

\* a document with the elements els, in document order
DocOf(els) ==
  [Blank EXCEPT !.kind = "html", !.text = << <<"<body>", "x", "</body>">> >>,
                !.elements = els, !.body = << <<"body">> >>,
                !.whole = << <<"whole">> >>, !.plain = << <<"plain">> >>]

SelectCalls ==
  {[op |-> "select", done |-> FALSE, ret |-> <<>>,
    args |-> [html |-> DocOf(els), content_priority |-> content_priority]] :
     els \in UNION {[1..k -> ElementPool] : k \in 0..MaxElements},
     content_priority \in ValidPriorities}

\* extract_main_content with what it selected and the candidates it weighed
ApplySelect ==
  /\ fn.op = "select"
  /\ ~fn.done
  /\ fn' = [fn EXCEPT
              !.done = TRUE,
              !.ret = [selected |-> selected_content(fn.args.html, fn.args.content_priority),
                       candidates |-> content_candidates(fn.args.html,
                                                         fn.args.content_priority),
                       content |-> extract_main_content(fn.args.html,
                                                        fn.args.content_priority)]]
  /\ UNCHANGED <<store, clock, config, req, started, out, db_up>>

\* the library calls that can raise on a document
Faults == {"parse", "pipeline", "convert"}

MarkdownCalls ==
  {[op |-> "to_markdown", done |-> FALSE, ret |-> <<>>,
    args |-> [html_content |-> [PageNoLink EXCEPT !.faults = faults,
                                                  !.whole = << <<"whole">> >>,
                                                  !.plain = << <<"plain">> >>],
              content_priority |-> content_priority]] :
     faults \in SUBSET Faults, content_priority \in {<<"auto">>, <<"article">>}}

ApplyToMarkdown ==
  /\ fn.op = "to_markdown"
  /\ ~fn.done
  /\ fn' = [fn EXCEPT !.done = TRUE,
                       !.ret = html_to_markdown_stages(fn.args.html_content,
                                                       fn.args.content_priority)]
  /\ UNCHANGED <<store, clock, config, req, started, out, db_up>>

\* the lists of n <li> elements: the first at depth 0, each following one at
\* most one deeper than the one before
ListsOf(n) ==
  {items \in [1..n -> [depth : 0..MaxItems, a : {"href", "nohref"}]] :
     /\ n > 0 => items[1].depth = 0
     /\ \A i \in 1..(n - 1) : items[i + 1].depth <= items[i].depth + 1}

NavigationCalls ==
  {[op |-> "navigation", done |-> FALSE, ret |-> <<>>, args |-> [items |-> items]] :
     items \in UNION {ListsOf(n) : n \in 0..MaxItems}}

ApplyNavigation ==
  /\ fn.op = "navigation"
  /\ ~fn.done
  /\ fn' = [fn EXCEPT !.done = TRUE, !.ret = extract_navigation(fn.args.items)]
  /\ UNCHANGED <<store, clock, config, req, started, out, db_up>>

FnInit ==
  /\ store = EmptyStore
  /\ clock = 1
  /\ config = BrowserConfig(TRUE, FALSE, <<"auto">>, FALSE)
  /\ req = [p \in Procs |-> IdleReq]
  /\ started = 0
  /\ out = NoOut
  /\ db_up = TRUE
  /\ \/ fn \in GrepCalls
     \/ fn \in RawCalls
     \/ fn \in LinkCalls
     \/ fn \in SearchCalls
     \/ fn \in NormalizeCalls
     \/ fn \in CacheIdCalls
     \/ fn \in SelectCalls
     \/ fn \in MarkdownCalls
     \/ fn \in NavigationCalls

FnNext ==
  \/ ApplyGrep
  \/ ApplyToRaw
  \/ ApplyFindLink
  \/ ApplySearch
  \/ ApplyNormalize
  \/ ApplyCacheId
  \/ ApplySelect
  \/ ApplyToMarkdown
  \/ ApplyNavigation

FnSpec == FnInit /\ [][FnNext]_vars

(***************************************************************************)
(* Requests for one page that run at the same time: browse_url is a        *)
(* coroutine, so another request runs only while this one awaits a fetch;  *)
(* the database calls between two awaits are not interrupted.              *)
(***************************************************************************)
ConcCalls ==
  {Call(url, grep, "None", "None", <<"None">>, "None") :
     url \in {UrlDocs, UrlBlob}, grep \in {NoGrep, WithGrep}}

ConcBrowse(p) ==
  \/ \E c \in ConcCalls :
       Start(p, c.url, c.grep, c.prefer_raw, c.include_navigation,
             c.content_priority, c.github_raw_only)
  \/ Returns(p)

ConcNext == \E p \in Procs : ConcBrowse(p)

ConcSpec == Init /\ [][ConcNext]_vars

(***************************************************************************)
(* The claims.                                                             *)
(***************************************************************************)
\* the completed requests
Done == {p \in Procs : req[p].pc = "done"}

\* the key of a request
KeyOf(r) ==
  _generate_cache_id(normalize_url(r.url), r.prefer_raw, r.include_navigation,
                     r.content_priority)

\* the request before r stored an entry for the URL and the flags of r
Repeats(r) ==
  /\ r.prev.stored
  /\ r.prev.url = r.url
  /\ r.prev.prefer_raw = r.prefer_raw
  /\ r.prev.include_navigation = r.include_navigation
  /\ r.prev.content_priority = r.content_priority

\* r is served from the table with exactly the text the request before it stored
ServedStored(r) ==
  /\ r.resp.form = "content"
  /\ r.resp.source = "cache"
  /\ r.content = r.prev.text
  /\ r.grep.pattern = <<>> => r.resp.body = r.prev.text

\* r was answered by the GitHub short-circuit of lines 81-93
ShortCircuited(r) ==
  r.resp.source = "GitHub source" \/ r.resp.form = "raw_failed"

\* C1 as stated: a browse request that immediately follows one that stored an
\* entry for the same URL and the same three flags reports source cache and
\* returns exactly the stored text, for every URL and every fetch outcome.
C1_Original == \A p \in Done : Repeats(req[p]) => ServedStored(req[p])

\* C1 (amended): a browse request that immediately follows one that stored an
\* entry for the same URL and the same three flags reports source cache and
\* returns exactly the stored text, unless it is answered by the GitHub
\* short-circuit, which precedes the cache lookup: a GitHub file URL with
\* prefer_raw in effect is served from the cache only when its raw fetch fails
\* and github_raw_only is off.
C1_RoundTrip ==
  \A p \in Done :
    LET r == req[p]
    IN /\ Repeats(r) /\ ~ShortCircuited(r) => ServedStored(r)
       /\ Repeats(r) /\ ~(is_github_url(r.url) /\ r.prefer_raw) => ~ShortCircuited(r)

C1_Witness ==
  \E p \in Done :
    /\ Repeats(req[p])
    /\ ServedStored(req[p])
    /\ is_github_url(req[p].url)
    /\ req[p].prefer_raw

\* C2 as stated: a request that finds only entries of its URL stored with other
\* flags is a cache miss and the page is fetched.
C2_Original ==
  \A p \in Done :
    LET r == req[p]
    IN r.foreign /\ ~r.exact => ~r.hit /\ r.resp.source # "cache" /\ r.fetched # <<>>

\* C2 (amended): a browse request is never served from an entry stored for the
\* same URL with other flags: when only such entries are in the store the
\* request is a cache miss, and the page is fetched unless github_raw_only is in
\* effect and the URL is not a GitHub file URL, in which case an error is
\* returned without a fetch.
C2_FlagSpecific ==
  \A p \in Done :
    LET r == req[p]
    IN /\ r.hit => r.exact
       /\ r.foreign /\ ~r.exact =>
            /\ ~r.hit
            /\ r.resp.source # "cache"
            /\ \/ r.fetched # <<>>
               \/ /\ r.github_raw_only
                  /\ ~is_github_url(r.url)
                  /\ r.resp.form = "raw_only_error"

C2_Witness ==
  \E p \in Done :
    /\ req[p].foreign
    /\ ~req[p].exact
    /\ req[p].looked
    /\ req[p].resp.source = "web"

\* C3 as stated: initialising the database (server start, the server created
\* for the cache commands) preserves every entry of the store.
C3_InitPreserves ==
  [][out'.op \in {"server", "cli_stats"} => store' = store]_vars

\* the page content of r came from the network in this request
FromNetwork(r) == r.resp.form = "content" /\ r.origin \in {"web", "raw_link", "raw_direct"}

\* the store holds the entry of r, with the content r returned
Holds(r) == KeyOf(r) \in DOMAIN store /\ store[KeyOf(r)].markdown_content = r.content

\* C4 as stated: whenever a browse request returns page content obtained from
\* the network (a web render or GitHub raw source), the store afterwards holds
\* an entry for the request's cache key.
C4_Original == \A p \in Done : FromNetwork(req[p]) => KeyOf(req[p]) \in DOMAIN store

\* C4 (amended): whenever a browse request returns page content obtained from
\* the network on a cache miss (a web render, or the raw source of the page's
\* GitHub source link), the store afterwards holds an entry for the request's
\* cache key with that content; the raw content of the GitHub short-circuit is
\* returned without being stored.
C4_StoredOnMiss ==
  \A p \in Done :
    /\ FromNetwork(req[p]) /\ req[p].origin # "raw_direct" => Holds(req[p])
    /\ req[p].origin = "raw_direct" => ~req[p].wrote

C4_Witness ==
  \E p \in Done : req[p].origin = "raw_link" /\ Holds(req[p]) /\ req[p].wrote

\* what out holds after a step of browse_url, search_cached_content or
\* get_cache_stats
BrowseSearchStats == {"none", "search", "stats"}

\* C5: no browse, search-cached-content or cache-stats operation removes an
\* entry: across each of their steps the set of stored keys does not shrink.
C5_NeverShrinks ==
  [][out'.op \in BrowseSearchStats => DOMAIN store \subseteq DOMAIN store']_vars

C5_Witness ==
  /\ Cardinality(DOMAIN store) = 2
  /\ out.op = "search"

\* C6 as stated: with github_raw_only in effect, browse returns content only
\* when it is raw GitHub source of a GitHub file URL.
C6_RawOnly ==
  \A p \in Done :
    LET r == req[p]
    IN r.github_raw_only /\ r.resp.form = "content" =>
         is_github_url(r.url) /\ r.origin = "raw_direct" /\ r.origin_kind = "raw"

\* C7 as stated: whenever browse is called with a non-empty grep pattern and
\* returns page content, the body is the grep filter's output over that content
\* and the header carries the filter description, whatever the source.
C7_GrepApplied ==
  \A p \in Done :
    LET r == req[p]
        g == r.grep
    IN g.pattern # <<>> /\ r.resp.form = "content" =>
         /\ r.resp.body = grep_content(r.content, g.pattern, g.context_lines,
                                       g.invert_match, g.show_line_numbers, g.whole_words)
         /\ r.resp.pattern = g.pattern

\* the source the header names
Named(r) ==
  CASE r.resp.source = "cache" -> "cache"
    [] r.resp.source = "web" -> "web"
    [] r.resp.source \in {"GitHub source", "GitHub raw content"} -> "github_raw"
    [] OTHER -> "none"

\* C8 as stated: every response with page content names exactly one source:
\* cache exactly when the text was read from the store, github_raw exactly when
\* it is raw GitHub source, web exactly when it was fetched and rendered in
\* this request.
C8_Provenance ==
  \A p \in Done :
    LET r == req[p]
    IN r.resp.form = "content" =>
         /\ Named(r) \in {"cache", "web", "github_raw"}
         /\ Named(r) = "cache" <=> r.origin = "store"
         /\ Named(r) = "web" <=> r.origin = "web"
         /\ Named(r) = "github_raw" <=>
              r.origin \in {"raw_direct", "raw_link"} /\ r.origin_kind = "raw"

\* C9: a browse request for a URL without a scheme or without a network
\* location returns the invalid-URL message at once: it fetches nothing, does
\* not read the store and leaves the store as it was.
C9_InvalidUrl ==
  [][\A p \in Procs :
       /\ req'[p] # req[p]
       /\ req'[p].pc # "idle"
       /\ (UrlScheme(req'[p].url) = <<>> \/ UrlNetloc(req'[p].url) = <<>>)
       => /\ req'[p].pc = "done"
          /\ req'[p].resp.form = "invalid_url"
          /\ req'[p].fetched = <<>>
          /\ ~req'[p].looked
          /\ ~req'[p].wrote
          /\ store' = store]_vars

C9_Witness ==
  \E p \in Done :
    /\ req[p].resp.form = "invalid_url"
    /\ UrlNetloc(req[p].url) = <<>>
    /\ UrlScheme(req[p].url) # <<>>
    /\ store # EmptyStore

\* C10: when the fetch of the requested page fails on a cache miss, browse
\* returns the failure message and the store is left as it was.
C10_FetchFailure ==
  [][\A p \in Procs :
       /\ req[p].pc = "fetch_page"
       /\ req'[p].pc # "fetch_page"
       /\ req'[p].results # <<>>
       /\ req'[p].results[Len(req'[p].results)] = "none"
       => /\ req'[p].pc = "done"
          /\ req'[p].resp.form = "fetch_failed"
          /\ ~req'[p].wrote
          /\ store' = store]_vars

C10_Witness ==
  \E p \in Done :
    /\ req[p].resp.form = "fetch_failed"
    /\ req[p].looked
    /\ ~req[p].hit
    /\ store # EmptyStore

\* C11 as stated: within one browse request the fetcher is called at most once
\* per URL.
C11_NoRefetch ==
  \A p \in Procs :
    \A i, j \in 1..Len(req[p].fetched) :
      i # j => req[p].fetched[i] # req[p].fetched[j]

\* C12 as stated: a failure of the store's lookup or write is reported in the
\* return value of browse; no exception leaves the operation.
C12_StoreFailureReported ==
  \A p \in Done : req[p].resp.form # "exception"

\* C13 as stated: the content-priority mode a browse request uses for the cache
\* key and for content selection, and the one it stores, is one of auto, main,
\* article, largest, dense.
C13_ValidMode ==
  /\ \A p \in Procs : req[p].pc # "idle" => req[p].content_priority \in ValidPriorities
  /\ \A k \in DOMAIN store : store[k].content_priority \in ValidPriorities

\* p runs its store step: its call of cache_content
Stores(p) == ~req[p].wrote /\ req'[p].wrote

\* C14: when requests for the same cache key overlap and both miss, each store
\* step leaves exactly the entry of the request that runs it, with its content
\* and its timestamp, and that request completes with a content response; no
\* other step changes the store, so the entry is that of the last store step.
C14_LastWriteWins ==
  [][/\ \A p \in Procs :
          Stores(p) =>
            LET k == KeyOf(req'[p])
            IN /\ k \in DOMAIN store'
               /\ store'[k].markdown_content = req'[p].content
               /\ store'[k].timestamp = clock'
               /\ req'[p].pc = "done"
               /\ req'[p].resp.form = "content"
               /\ DOMAIN store' = DOMAIN store \cup {k}
               /\ \A j \in DOMAIN store \ {k} : store'[j] = store[j]
     /\ (\A p \in Procs : ~Stores(p)) => store' = store]_vars

\* both requests missed on the same key, both stored, with different content
\* at different times, and the entry is that of the second
C14_Witness ==
  /\ req[1].pc = "done" /\ req[2].pc = "done"
  /\ KeyOf(req[1]) = KeyOf(req[2])
  /\ ~req[1].hit /\ ~req[2].hit
  /\ req[1].wrote /\ req[2].wrote
  /\ req[1].content # req[2].content
  /\ Cardinality(DOMAIN store) = 1
  /\ store[KeyOf(req[2])].markdown_content = req[2].content
  /\ store[KeyOf(req[2])].timestamp = 2

\* the call of grep_content that has returned
GrepDone == fn.op = "grep" /\ fn.done

\* the pattern grep_content compiles
Compiled(a) ==
  IF a.whole_words THEN <<"\\b">> \o a.pattern \o <<"\\b">> ELSE a.pattern

\* the indices of the lines the regular expression matches
Matching(a) ==
  {i \in 1..Len(a.content) : RegexSearch(Compiled(a), a.content[i])}

\* the indices within context_lines of a matching line
Near(a) ==
  {i \in 1..Len(a.content) :
     \E j \in Matching(a) : i - j <= a.context_lines /\ j - i <= a.context_lines}

\* the k-th smallest element of a set of indices
Kth(S, k) == CHOOSE i \in S : Cardinality({j \in S : j <= i}) = k

\* line i of the output with context: marker, number, text
Marked(a, i) ==
  (IF i \in Matching(a) THEN <<"> ">> ELSE <<"  ">>)
    \o (IF a.show_line_numbers THEN NumStr(i) \o <<": ">> ELSE <<>>)
    \o a.content[i]

\* C15: for a pattern that compiles, context_lines > 0 and invert_match off,
\* the output is the lines within context_lines of a matching line, each once
\* and in ascending order, a matching line marked "> " and a context line
\* marked with two blanks, then the 1-based number when numbering is on.
C15_Context ==
  LET a == fn.args
  IN GrepDone /\ Compiles(a.pattern) /\ a.context_lines > 0 /\ ~a.invert_match
       /\ Matching(a) # {} =>
         /\ Len(fn.ret) = Cardinality(Near(a))
         /\ \A k \in 1..Len(fn.ret) : fn.ret[k] = Marked(a, Kth(Near(a), k))

\* the five-line text with context 1: lines 2, 3 and 4, the third marked
C15_Witness ==
  /\ GrepDone
  /\ fn.args.content = ExampleText
  /\ fn.args.pattern = <<"foo">>
  /\ fn.args.context_lines = 1
  /\ ~fn.args.invert_match
  /\ fn.args.show_line_numbers
  /\ fn.ret = << <<"  ", "2", ": ", "bar">>, <<"> ", "3", ": ", "foo">>,
                 <<"  ", "4", ": ", "bar">> >>

\* the lines that hold the caller's pattern as a substring, whatever the case
Holding(a) ==
  {i \in 1..Len(a.content) : Contains(LowerStr(a.content[i]), LowerStr(a.pattern))}

\* the lines the fallback is to return
Wanted(a) ==
  IF a.invert_match THEN (1..Len(a.content)) \ Holding(a) ELSE Holding(a)

\* C16 as stated: for a pattern that does not compile the output is the lines
\* that hold the caller's pattern as a case-insensitive substring (those that
\* do not hold it with invert_match), without context and without marker, for
\* every setting of whole_words and context_lines.
C16_Fallback ==
  LET a == fn.args
      number(i) == IF a.show_line_numbers THEN NumStr(i) \o <<": ">> ELSE <<>>
  IN GrepDone /\ ~Compiles(a.pattern) =>
       IF Wanted(a) = {} THEN fn.ret = NoMatchText
       ELSE /\ Len(fn.ret) = Cardinality(Wanted(a))
            /\ \A k \in 1..Len(fn.ret) :
                 fn.ret[k] = number(Kth(Wanted(a), k)) \o a.content[Kth(Wanted(a), k)]

\* the lines the filter selects: by the regular expression, or by the
\* substring test when the pattern does not compile
Selects(a) ==
  LET hits == IF Compiles(Compiled(a)) THEN Matching(a)
              ELSE {i \in 1..Len(a.content) :
                      Contains(LowerStr(a.content[i]), LowerStr(Compiled(a)))}
  IN IF a.invert_match THEN (1..Len(a.content)) \ hits ELSE hits

\* C17: for a non-empty pattern and a text in which the filter selects no
\* line, grep_content returns the fixed sentence, never the empty string.
C17_NeverEmpty ==
  GrepDone /\ fn.args.pattern # <<>> /\ Selects(fn.args) = {} =>
    fn.ret = NoMatchText /\ fn.ret # EmptyText

\* nothing selected in the substring fallback with invert_match
C17_Witness ==
  /\ GrepDone
  /\ ~Compiles(fn.args.pattern)
  /\ fn.args.invert_match
  /\ Selects(fn.args) = {}
  /\ fn.ret = NoMatchText

\* the entries of the searched table in which the filter selects a line
Selected(st, g) ==
  {k \in DOMAIN st :
     Selects([content |-> st[k].markdown_content, pattern |-> g.pattern,
              context_lines |-> g.context_lines, invert_match |-> g.invert_match,
              show_line_numbers |-> g.show_line_numbers,
              whole_words |-> g.whole_words]) # {}}

\* C18 as stated: search_cached_content returns a preview section for every
\* entry in which the filter selects at least one line, and for no other.
C18_SearchSections ==
  fn.op = "search" /\ fn.done =>
    {r.url : r \in fn.ret} = {fn.args.st[k].url : k \in Selected(fn.args.st, fn.args.g)}

\* C19 as stated: github_url_to_raw returns its input for every URL whose host
\* is not github.com and for every github.com URL whose path holds neither
\* /blob/ nor /edit/.
C19_NoOp ==
  LET u == fn.args.url
      path == BeforeFirst(SubSeq(u, 5, Len(u)), "?")
  IN fn.op = "to_raw" /\ fn.done
       /\ \/ UrlNetloc(u) # <<"github.com">>
          \/ ~Contains(path, <<"/", "blob", "/">>) /\ ~Contains(path, <<"/", "edit", "/">>)
       => fn.ret = u

\* the anchor is a link to GitHub
ToGitHub(a) == UrlNetloc(a.href) = <<"github.com">>

\* the anchor is a GitHub edit, blob or tree link
ToFile(a) ==
  /\ ToGitHub(a)
  /\ \/ Contains(a.href, <<"/", "edit", "/">>)
     \/ Contains(a.href, <<"/", "blob", "/">>)
     \/ Contains(a.href, <<"/", "tree", "/">>)

\* the text of the anchor has edit phrasing
EditPhrased(a) == \E i \in 1..Len(a.text) : Lower(a.text[i]) \in EditPhrases

\* the anchors, among those with an index in I, of the highest class that is
\* not empty
Best(ls, I) ==
  LET A == {i \in I : ToFile(ls[i]) /\ EditPhrased(ls[i])}
      B == {i \in I : ToFile(ls[i])}
      C == {i \in I : ToGitHub(ls[i])}
  IN IF A # {} THEN A ELSE IF B # {} THEN B ELSE C

\* the result is the first anchor of the highest class among those in I, none
\* exactly when no anchor in I is a GitHub link
FirstOfBest(ls, I, ret) ==
  IF Best(ls, I) = {} THEN ret = NoLink
  ELSE /\ ret # NoLink
       /\ ret.href = ls[Kth(Best(ls, I), 1)].href
       /\ ret.text = ls[Kth(Best(ls, I), 1)].text

\* C20: find_github_source_link returns the first link of the
\* highest non-empty class among the links of the page, none exactly when the
\* page has no GitHub link.
C20_SourceLink ==
  fn.op = "find_link" /\ fn.done =>
    FirstOfBest(fn.args.html.links, 1..Len(fn.args.html.links), fn.ret)

\* the two URLs differ at most in their fragment
SameButFragment(u, v) == BeforeFirst(u, "#") = BeforeFirst(v, "#")

\* httpx.URL accepts the URL
Parsable(u) == \A i \in 1..Len(u) : u[i] \notin UnparsableHosts

\* C21 as stated: normalize_url maps any two URLs that differ only in their
\* fragment to the same string and is idempotent, so that browse requests for
\* them with equal flags address the same cache entry.
C21_Original ==
  fn.op = "normalize" /\ fn.done =>
    /\ fn.ret.again = fn.ret.url
    /\ SameButFragment(fn.args.url, fn.args.other) =>
         fn.ret.url = fn.ret.other /\ fn.ret.url_key = fn.ret.other_key

\* C21 (amended): normalize_url is idempotent on every URL; it maps two URLs
\* that differ only in their fragment to the same string, and so to the same
\* cache key under equal flags, when httpx can parse them; a URL that httpx
\* cannot parse is returned as it is, fragment included.
C21_Normalize ==
  fn.op = "normalize" /\ fn.done =>
    /\ fn.ret.again = fn.ret.url
    /\ Parsable(fn.args.url) /\ SameButFragment(fn.args.url, fn.args.other) =>
         fn.ret.url = fn.ret.other /\ fn.ret.url_key = fn.ret.other_key
    /\ ~Parsable(fn.args.url) => fn.ret.url = fn.args.url

\* two URLs with different fragments have one normal form, without fragment
C21_Witness ==
  /\ fn.op = "normalize" /\ fn.done
  /\ Parsable(fn.args.url)
  /\ fn.args.url # fn.args.other
  /\ Contains(fn.args.url, <<"#">>) /\ Contains(fn.args.other, <<"#">>)
  /\ SameButFragment(fn.args.url, fn.args.other)
  /\ fn.ret.url = fn.ret.other
  /\ ~Contains(fn.ret.url, <<"#">>)
  /\ fn.ret.url_key = fn.ret.other_key

\* C28 as stated: _generate_cache_id is injective: two tuples (normalized URL,
\* prefer_raw, include_navigation, content_priority) that differ never get
\* the same key, also when the strings contain the delimiter.
C28_Injective ==
  fn.op = "cache_id" /\ fn.done /\ fn.args.a # fn.args.b => fn.ret.a # fn.ret.b

\* the URL is a raw-content URL: the host of raw files or a /raw/ path
RawUrl(u) ==
  /\ Len(u) >= 4
  /\ \/ u[4] = "raw.githubusercontent.com"
     \/ Contains(u, <<"/", "raw", "/">>)

\* C29 as stated: content that a browse response labels as GitHub raw content
\* was fetched last from a raw-content URL, never from a github.com page URL
\* that github_url_to_raw left as it was.
C29_RawFromRawUrl ==
  \A p \in Done :
    LET r == req[p]
    IN r.resp.form = "content" /\ Named(r) = "github_raw" =>
         /\ r.fetched # <<>>
         /\ RawUrl(r.fetched[Len(r.fetched)])

\* extract_main_content has been applied
SelectDone == fn.op = "select" /\ fn.done

\* the document has an element with the tag
HasTag(els, tag) == \E i \in 1..Len(els) : els[i].tag = tag

\* the first element with the tag
FirstWithTag(els, tag) == Kth({i \in 1..Len(els) : els[i].tag = tag}, 1)

\* the candidate comes from the density analysis
IsHeuristic(c) ==
  c.name \in {"div-heuristic", "section-heuristic", "main-heuristic", "td-heuristic",
              "table-heuristic"}

\* C22: in mode auto the first <main> element is selected whenever there is
\* one, whatever other candidates exist; no candidate of the density analysis
\* scores more than 40, and none is selected in any mode while the document
\* has a <main> or an <article> element.
C22_MainWins ==
  SelectDone =>
    LET els == fn.args.html.elements
        chosen == fn.ret.selected
        candidates == fn.ret.candidates
    IN /\ \A k \in 1..Len(candidates) :
            IsHeuristic(candidates[k]) => candidates[k].score <= 40000
       /\ fn.args.content_priority = <<"auto">> /\ HasTag(els, "main") =>
            chosen.idx = FirstWithTag(els, "main")
       /\ HasTag(els, "main") \/ HasTag(els, "article") =>
            /\ chosen.via # "body"
            /\ chosen.via = "candidates" => ~IsHeuristic(candidates[chosen.pos])

\* a <div> of 10000 characters reaches the cap of the density analysis and a
\* <div class="content"> of 50 characters comes first: <main> is selected
C22_Witness ==
  /\ SelectDone
  /\ fn.args.content_priority = <<"auto">>
  /\ Len(fn.args.html.elements) = 3
  /\ fn.args.html.elements[1].tag = "div" /\ fn.args.html.elements[1].len = 10000
  /\ fn.args.html.elements[2].sel = ".content" /\ fn.args.html.elements[2].len = 50
  /\ fn.args.html.elements[3].tag = "main" /\ fn.args.html.elements[3].len = 500
  /\ \E k \in 1..Len(fn.ret.candidates) :
       fn.ret.candidates[k].name = "div-heuristic" /\ fn.ret.candidates[k].score = 40000
  /\ fn.ret.selected.idx = 3
  /\ fn.ret.content = << <<"main">> >>

\* C25: the final selection follows the mode: mode main with a <main> element
\* selects that element; mode article with <article> elements selects an
\* article with the longest text; every other case with a candidate selects a
\* candidate with the highest score; without any candidate the body is
\* selected.
C25_ModeSelection ==
  SelectDone =>
    LET els == fn.args.html.elements
        chosen == fn.ret.selected
        candidates == fn.ret.candidates
    IN IF fn.args.content_priority = <<"main">> /\ HasTag(els, "main")
       THEN chosen.idx = FirstWithTag(els, "main")
       ELSE IF fn.args.content_priority = <<"article">> /\ HasTag(els, "article")
       THEN /\ chosen.idx # 0
            /\ els[chosen.idx].tag = "article"
            /\ \A j \in 1..Len(els) :
                 els[j].tag = "article" => els[j].len <= els[chosen.idx].len
       ELSE IF candidates # <<>>
       THEN \E k \in 1..Len(candidates) :
              /\ candidates[k].idx = chosen.idx
              /\ \A j \in 1..Len(candidates) : candidates[j].score <= candidates[k].score
       ELSE chosen.idx = 0 /\ fn.ret.content = fn.args.html.body

\* an article of 200 characters before one of 2000: mode article selects the
\* second
C25_Witness ==
  /\ SelectDone
  /\ fn.args.content_priority = <<"article">>
  /\ Len(fn.args.html.elements) = 2
  /\ fn.args.html.elements[1].tag = "article" /\ fn.args.html.elements[1].len = 200
  /\ fn.args.html.elements[2].tag = "article" /\ fn.args.html.elements[2].len = 2000
  /\ fn.ret.selected.idx = 2
  /\ fn.ret.content = << <<"long">> >>

\* the candidates with the highest score
Top(candidates) ==
  {k \in 1..Len(candidates) :
     \A j \in 1..Len(candidates) : candidates[j].score <= candidates[k].score}

\* C26 as stated: when several candidates share the highest score, the one
\* that comes first in document order is selected.
C26_Original ==
  SelectDone /\ fn.ret.selected.via = "candidates" =>
    \A k \in Top(fn.ret.candidates) : fn.ret.selected.idx <= fn.ret.candidates[k].idx

\* the origins of candidates in the order in which extract_main_content looks
\* for them
OriginOrder ==
  <<"main", "article", "#content", ".content", "#main", ".main", "[role=main]", ".post",
    ".entry", ".blog-post", ".page-content", ".site-content", ".markdown-body",
    "div-heuristic", "section-heuristic", "main-heuristic", "td-heuristic",
    "table-heuristic">>

\* the place of the origin of a candidate in that order
Rank(c) == CHOOSE n \in 1..Len(OriginOrder) : OriginOrder[n] = c.name

\* C26 (amended): when several candidates share the highest score, the one
\* found first is selected: the origins are tried in the order main, article,
\* the content selectors in their fixed order, then the density analysis by
\* tag, and within one origin the candidates are found in document order.
C26_InsertionOrder ==
  SelectDone /\ fn.ret.selected.via = "candidates" =>
    LET candidates == fn.ret.candidates
        chosen == candidates[fn.ret.selected.pos]
    IN /\ fn.ret.selected.pos \in Top(candidates)
       /\ chosen.idx = fn.ret.selected.idx
       /\ \A k \in Top(candidates) :
            \/ Rank(chosen) < Rank(candidates[k])
            \/ Rank(chosen) = Rank(candidates[k]) /\ chosen.idx <= candidates[k].idx

\* a <div class="blog-post"> before a <div class="entry">, both with score
\* 50: the second is selected, since .entry is tried first
C26_Witness ==
  /\ SelectDone
  /\ fn.args.content_priority = <<"auto">>
  /\ Len(fn.args.html.elements) = 2
  /\ fn.args.html.elements[1].sel = ".blog-post"
  /\ fn.args.html.elements[2].sel = ".entry"
  /\ Top(fn.ret.candidates) = {1, 2}
  /\ fn.ret.selected.idx = 2

\* C30 as stated: the selected region is never itself an element listed as
\* navigation, header or footer, or noise, so the cleanup keeps the content
\* of the region.
C30_RegionKept ==
  SelectDone /\ fn.ret.selected.idx # 0 =>
    /\ ~IsNoise(fn.args.html.elements[fn.ret.selected.idx])
    /\ fn.ret.content = fn.args.html.elements[fn.ret.selected.idx].md

\* C24 as stated: html_to_markdown tries the full pipeline, then the plain
\* conversion, then the text extraction, each only when the one before
\* raised, and for every non-empty input it returns text and raises nothing.
C24_NeverRaises ==
  fn.op = "to_markdown" /\ fn.done /\ Truthy(fn.args.html_content.text) =>
    /\ ~fn.ret.raised
    /\ fn.ret.tried \in {<<1>>, <<1, 2>>, <<1, 2, 3>>}
    /\ Len(fn.ret.tried) >= 2 => fn.args.html_content.faults # {}
    /\ Len(fn.ret.tried) = 3 => fn.args.html_content.faults \cap {"parse", "convert"} # {}

\* extract_navigation has been applied
NavigationDone == fn.op = "navigation" /\ fn.done

\* the list has no nested list
Flat(items) == \A i \in 1..Len(items) : items[i].depth = 0

\* the links of the <li> elements at the places in S, in document order, each
\* at the level of its nesting depth
LinksAt(items, S) ==
  [k \in 1..Cardinality(S) |-> [node |-> Kth(S, k), level |-> items[Kth(S, k)].depth]]

\* C23 as stated: a flat list with exactly 2 anchors yields no section; one
\* with n >= 3 anchors, one per list item, yields exactly one section whose
\* items are those n links, all at level 0.
C23_Original ==
  NavigationDone /\ Flat(fn.args.items) =>
    LET items == fn.args.items
    IN IF Len(items) < 3 THEN fn.ret = {}
       ELSE fn.ret = {[root |-> 0, items |-> LinksAt(items, 1..Len(items))]}

\* C23 (amended): a flat list with fewer than 3 anchors yields no section; one
\* with n >= 3 anchors, one per list item, yields exactly one section whose
\* items are the anchors that have an href, in document order and all at
\* level 0, and no section when none of the anchors has an href.
C23_FlatList ==
  NavigationDone /\ Flat(fn.args.items) =>
    LET items == fn.args.items
        linked == {i \in 1..Len(items) : items[i].a = "href"}
    IN IF Len(items) < 3 \/ linked = {} THEN fn.ret = {}
       ELSE fn.ret = {[root |-> 0, items |-> LinksAt(items, linked)]}

\* a flat list of three links yields one section of three items at level 0
C23_Witness ==
  /\ NavigationDone
  /\ Len(fn.args.items) = 3
  /\ Flat(fn.args.items)
  /\ \A i \in 1..3 : fn.args.items[i].a = "href"
  /\ fn.ret = {[root |-> 0,
                items |-> << [node |-> 1, level |-> 0], [node |-> 2, level |-> 0],
                             [node |-> 3, level |-> 0] >>]}

\* C27 as stated: within the section of a list the items are in document
\* order: each list item contributes its link exactly once, at the level of
\* its nesting depth, nested items right after their parent.
C27_DocumentOrder ==
  NavigationDone =>
    LET items == fn.args.items
    IN \A s \in fn.ret :
         s.root = 0 /\ (\A i \in 1..Len(items) : items[i].a = "href") =>
           s.items = LinksAt(items, 1..Len(items))

====
